---- MODULE Spec2Model ----
(***************************************************************************)
(* A model of applehealth_healthkit_llm_query.py: the discovery of the     *)
(* data files of a directory, the three summarizers, the prompt builder    *)
(* and the streaming model client, as main() runs them one after another.  *)
(*                                                                         *)
(* Python values are tagged with their type: [int |-> 3], [str |-> s],     *)
(* [list |-> l], [dict |-> d], [none |-> TRUE].  A str is a sequence of    *)
(* pieces (characters, or longer constant texts); a dict is the sequence   *)
(* of its [k, v] items in insertion order.  Paths and file names are       *)
(* sequences of characters.  The platform is POSIX: glob is                *)
(* case-sensitive and "/" is the only separator.                           *)
(***************************************************************************)
EXTENDS Integers, Sequences, FiniteSets, TLC

VARIABLES
    listing,       \* os.listdir(search_dir): the directory's files, in listing order
    user_query,    \* args.query
    pc,            \* where main() is
    data_files,    \* main: data_files
    idx,           \* main: position of the dispatch loop in data_files
    summaries,     \* main: summaries
    summarized,    \* history: the paths whose summarizer returned, in order
    prompt,        \* main: prompt
    console,       \* everything printed so far
    exit_code,     \* the exit status of the process, once it has ended
    client,        \* query_ollama: the state of the model client
    client_trace,  \* history: the client states gone through
    received,      \* history: the chunks the stream has yielded
    collected,     \* query_ollama: collected
    result,        \* query_ollama: the returned string
    calls,         \* history: the functions invoked, in order
    arg,           \* the input of the function applied alone
    ret            \* its result

vars == <<listing, user_query, pc, data_files, idx, summaries, summarized, prompt,
          console, exit_code, client, client_trace, received, collected, result,
          calls, arg, ret>>

mainVars == <<listing, user_query, data_files, idx, summaries, summarized, prompt,
              console, exit_code, client, client_trace, received, collected, result,
              calls>>

-----------------------------------------------------------------------------
(* Bounds of the model. *)

MaxFiles == 2

MaxChunks == 2

MaxCols == 2

MaxRows == 2

MaxVal == 2

MaxTracks == 2

MaxSegs == 2

MaxSegLen == 3

MaxMsgs == 11

MaxSummaries == 2

(* df.head(10), points[:10], records[:10] *)
SampleSize == 10

(* "="*40 *)
RuleWidth == 40

-----------------------------------------------------------------------------
(* Python values. *)

NoneVal == [none |-> TRUE]

PyStr(s) == [str |-> s]

PyInt(n) == [int |-> n]

PyList(l) == [list |-> l]

PyDict(d) == [dict |-> d]

IsNone(v) == "none" \in DOMAIN v

IsStr(v) == "str" \in DOMAIN v

IsDict(v) == "dict" \in DOMAIN v

(* bool(v): None, '', [] and {} are false. *)
Truthy(v) ==
    IF IsNone(v) THEN FALSE
    ELSE IF IsStr(v) THEN v.str # <<>>
    ELSE IF IsDict(v) THEN v.dict # <<>>
    ELSE IF "list" \in DOMAIN v THEN v.list # <<>>
    ELSE IF "int" \in DOMAIN v THEN v.int # 0
    ELSE TRUE

(* a or b *)
PyOr(a, b) == IF Truthy(a) THEN a ELSE b

(* d[k] and k in d, for a dict held as its items in insertion order *)
DictHas(d, k) == \E i \in 1..Len(d) : d[i].k = k

DictKeys(d) == [i \in 1..Len(d) |-> d[i].k]

DictAt(d, k) == d[CHOOSE i \in 1..Len(d) : d[i].k = k].v

(* d.get(k) *)
DictGet(d, k) == IF DictHas(d, k) THEN DictAt(d, k) ELSE NoneVal

(* d[k] = v: an existing key keeps its place, a new one goes last *)
DictPut(d, k, v) ==
    IF DictHas(d, k)
    THEN [i \in 1..Len(d) |-> IF d[i].k = k THEN [k |-> k, v |-> v] ELSE d[i]]
    ELSE Append(d, [k |-> k, v |-> v])

(* a list of one-piece strs *)
StrList(names) == [i \in 1..Len(names) |-> PyStr(<<names[i]>>)]

(* seq[:n] *)
Prefix(s, n) == SubSeq(s, 1, IF Len(s) < n THEN Len(s) ELSE n)

RECURSIVE Flatten(_)
Flatten(ss) == IF ss = <<>> THEN <<>> ELSE Head(ss) \o Flatten(Tail(ss))

RECURSIVE SeqSum(_)
SeqSum(s) == IF s = <<>> THEN 0 ELSE Head(s) + SeqSum(Tail(s))

RECURSIVE SeqMin(_)
SeqMin(s) ==
    IF Len(s) = 1 THEN s[1]
    ELSE LET m == SeqMin(Tail(s)) IN IF s[1] < m THEN s[1] ELSE m

RECURSIVE SeqMax(_)
SeqMax(s) ==
    IF Len(s) = 1 THEN s[1]
    ELSE LET m == SeqMax(Tail(s)) IN IF s[1] > m THEN s[1] ELSE m

RECURSIVE SelectIdx(_, _, _)
(* the indices i of 1..n, ascending, that Keep[i] selects *)
SelectIdx(n, Keep, i) ==
    IF i > n THEN <<>>
    ELSE (IF Keep[i] THEN <<i>> ELSE <<>>) \o SelectIdx(n, Keep, i + 1)

-----------------------------------------------------------------------------
(* Paths. *)

SearchDir == <<"/", "h", ".", "d">>

(* os.path.join(search_dir, name) *)
PathJoin(d, name) == d \o <<"/">> \o name

(* the last index of character c in p, 0 when there is none: p.rfind(c) + 1 *)
RFind(p, c) ==
    IF \E i \in 1..Len(p) : p[i] = c
    THEN CHOOSE i \in 1..Len(p) : p[i] = c /\ \A j \in (i + 1)..Len(p) : p[j] # c
    ELSE 0

(* os.path.basename *)
basename(p) == SubSeq(p, RFind(p, "/") + 1, Len(p))

(* os.path.splitext(p)[1]: from the last dot of the last component on, unless
   that dot is one of the component's leading dots *)
splitext_ext(p) ==
    LET sepIndex == RFind(p, "/")
        dotIndex == RFind(p, ".")
    IN  IF /\ dotIndex > sepIndex
           /\ \E j \in (sepIndex + 1)..(dotIndex - 1) : p[j] # "."
        THEN SubSeq(p, dotIndex, Len(p))
        ELSE <<>>

LowerChar(c) ==
    CASE c = "C" -> "c"
      [] c = "S" -> "s"
      [] c = "V" -> "v"
      [] c = "G" -> "g"
      [] c = "P" -> "p"
      [] c = "X" -> "x"
      [] c = "F" -> "f"
      [] c = "I" -> "i"
      [] c = "T" -> "t"
      [] c = "H" -> "h"
      [] c = "R" -> "r"
      [] OTHER -> c

(* str.lower *)
lower(s) == [i \in 1..Len(s) |-> LowerChar(s[i])]

HasSuffix(s, suf) ==
    /\ Len(s) >= Len(suf)
    /\ SubSeq(s, Len(s) - Len(suf) + 1, Len(s)) = suf

(* the match with the case folded *)
GlobMatchNoCase(name, suf) ==
    /\ name # <<>>
    /\ name[1] # "."
    /\ HasSuffix(lower(name), suf)

(* the match that lets the names starting with a dot in *)
GlobMatchHidden(name, suf) == HasSuffix(name, suf)

(* fnmatch of the pattern '*' + suf, case-sensitive; glob leaves out the names
   that start with a dot *)
GlobMatch(name, suf) ==
    /\ name # <<>>
    /\ name[1] # "."
    /\ HasSuffix(name, suf)

-----------------------------------------------------------------------------
(* The tabular summarizer.  A parsed table (pd.read_csv) is
   [n |-> number of rows, cols |-> the columns in file order], a column being
   [name, numeric, vals]: vals are the cells, numbers when the column's dtype
   is numeric and otherwise the rank of the cell's text. *)

(* the text of a cell of a non-numeric column *)
CellText(v) == "2024-01-0" \o ToString(v)

(* str() of a cell *)
CellStr(col, v) == IF col.numeric THEN ToString(v) ELSE CellText(v)

CellVal(col, v) == IF col.numeric THEN PyInt(v) ELSE PyStr(<<CellText(v)>>)

(* df[c].mean(), as the fraction sum / count *)
ColMean(col) == [float |-> [num |-> SeqSum(col.vals), den |-> Len(col.vals)]]

ColStats(col) ==
    PyDict(<<[k |-> "mean", v |-> ColMean(col)],
             [k |-> "min", v |-> PyInt(SeqMin(col.vals))],
             [k |-> "max", v |-> PyInt(SeqMax(col.vals))]>>)

(* f"{df['Date'].min()} to {df['Date'].max()}": min and max of no rows are nan *)
DateRange(col) ==
    IF col.vals = <<>> THEN PyStr(<<"nan", " to ", "nan">>)
    ELSE PyStr(<<CellStr(col, SeqMin(col.vals)), " to ", CellStr(col, SeqMax(col.vals))>>)

ColumnNames(df) == [i \in 1..Len(df.cols) |-> df.cols[i].name]

HasColumn(df, name) == \E i \in 1..Len(df.cols) : df.cols[i].name = name

ColumnNamed(df, name) == df.cols[CHOOSE i \in 1..Len(df.cols) : df.cols[i].name = name]

(* df.select_dtypes(include='number').columns, in column order *)
NumericCols(df) ==
    LET ix == SelectIdx(Len(df.cols), [i \in 1..Len(df.cols) |-> df.cols[i].numeric], 1)
    IN  [j \in 1..Len(ix) |-> df.cols[ix[j]]]

RECURSIVE PutStats(_, _)
(* for col in numeric_cols: summary[col] = {...} *)
PutStats(summary, cols) ==
    IF cols = <<>> THEN summary
    ELSE PutStats(DictPut(summary, Head(cols).name, ColStats(Head(cols))), Tail(cols))

(* one row of df as a dict column -> value *)
RowDict(df, r) ==
    PyDict([i \in 1..Len(df.cols) |->
              [k |-> df.cols[i].name, v |-> CellVal(df.cols[i], df.cols[i].vals[r])]])

(* df.head(10).to_dict(orient='records') *)
SampleRows(df) ==
    LET m == IF df.n < SampleSize THEN df.n ELSE SampleSize
    IN  PyList([r \in 1..m |-> RowDict(df, r)])

summarize_csv(file_path, df) ==
    LET s1 == DictPut(<<>>, "file", PyStr(basename(file_path)))
        s2 == DictPut(s1, "total_records", PyInt(df.n))
        s3 == DictPut(s2, "columns", PyList(StrList(ColumnNames(df))))
        s4 == DictPut(s3, "date_range",
                      IF HasColumn(df, "Date") THEN DateRange(ColumnNamed(df, "Date"))
                      ELSE PyStr(<<"N/A">>))
        s5 == PutStats(s4, NumericCols(df))
    IN  DictPut(s5, "sample", SampleRows(df))

-----------------------------------------------------------------------------
(* The track summarizer.  A parsed track file (gpxpy.parse) is
   [tracks |-> the tracks], a track the sequence of its segments, a segment
   the sequence of its points, a point
   [time, latitude, longitude, elevation, extensions], an extension the
   sequence of its child elements [tag, text]. *)

RECURSIVE HeartRate(_, _)
(* the pt of a point after its extension children have been gone through: the
   text of every child whose lower-cased tag holds 'hr' is stored, the last
   one staying *)
HeartRate(pt, children) ==
    IF children = <<>> THEN pt
    ELSE LET child == Head(children)
             tag == lower(child.tag)
             isHr == \E i \in 1..(Len(tag) - 1) : tag[i] = "h" /\ tag[i + 1] = "r"
         IN  HeartRate(IF isHr THEN DictPut(pt, "heart_rate", child.text) ELSE pt,
                       Tail(children))

PointDict(point) ==
    LET pt == <<[k |-> "time", v |-> point.time],
                [k |-> "latitude", v |-> point.latitude],
                [k |-> "longitude", v |-> point.longitude],
                [k |-> "elevation", v |-> point.elevation]>>
    IN  PyDict(HeartRate(pt, Flatten(point.extensions)))

RECURSIVE SegmentsPoints(_)
SegmentsPoints(segments) ==
    IF segments = <<>> THEN <<>>
    ELSE [i \in 1..Len(Head(segments)) |-> PointDict(Head(segments)[i])]
         \o SegmentsPoints(Tail(segments))

(* the points of the first track alone *)
TracksPointsFirstTrack(tracks) ==
    IF tracks = <<>> THEN <<>> ELSE SegmentsPoints(Head(tracks))

RECURSIVE TracksPoints(_)
(* points, after the three nested loops *)
TracksPoints(tracks) ==
    IF tracks = <<>> THEN <<>>
    ELSE SegmentsPoints(Head(tracks)) \o TracksPoints(Tail(tracks))

(* str() of a point's time: a datetime or None *)
TimeStr(t) ==
    IF IsNone(t) THEN PyStr(<<"None">>)
    ELSE PyStr(<<"2024-01-01 00:00:", ToString(t.ts), "+00:00">>)

summarize_gpx(file_path, gpx) ==
    LET points == TracksPoints(gpx.tracks)
    IN  <<[k |-> "file", v |-> PyStr(basename(file_path))],
          [k |-> "type", v |-> PyStr(<<"gpx">>)],
          [k |-> "total_points", v |-> PyInt(Len(points))],
          [k |-> "start_time",
           v |-> IF points # <<>> THEN TimeStr(DictAt(points[1].dict, "time"))
                 ELSE PyStr(<<"N/A">>)],
          [k |-> "end_time",
           v |-> IF points # <<>> THEN TimeStr(DictAt(points[Len(points)].dict, "time"))
                 ELSE PyStr(<<"N/A">>)],
          [k |-> "sample_points", v |-> PyList(Prefix(points, SampleSize))]>>

-----------------------------------------------------------------------------
(* The fitness summarizer.  A decoded file (fitparse.FitFile) is
   [messages |-> the messages in file order], a message
   [name |-> its type, fields |-> its [name, value] field data]. *)

(* the messages of every type *)
get_messages_all(fitfile, name) == fitfile.messages

(* fitfile.get_messages('record') *)
get_messages(fitfile, name) ==
    LET ix == SelectIdx(Len(fitfile.messages),
                        [i \in 1..Len(fitfile.messages) |-> fitfile.messages[i].name = name],
                        1)
    IN  [j \in 1..Len(ix) |-> fitfile.messages[ix[j]]]

RECURSIVE RecordDict(_, _)
(* for d in record: rec[d.name] = d.value *)
RecordDict(rec, fields) ==
    IF fields = <<>> THEN rec
    ELSE RecordDict(DictPut(rec, Head(fields).name, Head(fields).value), Tail(fields))

FitRecords(fitfile) ==
    LET msgs == get_messages(fitfile, "record")
    IN  [i \in 1..Len(msgs) |-> PyDict(RecordDict(<<>>, msgs[i].fields))]

summarize_fit(file_path, fitfile) ==
    LET records == FitRecords(fitfile)
    IN  <<[k |-> "file", v |-> PyStr(basename(file_path))],
          [k |-> "type", v |-> PyStr(<<"fit">>)],
          [k |-> "total_records", v |-> PyInt(Len(records))],
          [k |-> "fields",
           v |-> IF records # <<>> THEN PyList(StrList(DictKeys(records[1].dict)))
                 ELSE PyList(<<>>)],
          [k |-> "sample_records", v |-> PyList(Prefix(records, SampleSize))]>>

-----------------------------------------------------------------------------
(* The prompt builder.  A prompt is a sequence of pieces: [lit |-> text] for
   the constant text of an f-string, [val |-> v] for a formatted value.  The
   result is [ok |-> TRUE, text |-> pieces], or [ok |-> FALSE] when a key that
   the rendering indexes is missing (KeyError). *)

Lit(t) == [lit |-> t]

Val(v) == [val |-> v]

(* datetime.now().strftime('%Y-%m-%d') *)
Today == "2026-11-02"

DefaultPrompts ==
    "Please provide a comprehensive analysis including:\n1. Notable patterns or trends\n2. Unusual findings\n3. Actionable health insights\n4. Areas for improvement\n"

HasKeys(d, keys) == \A k \in keys : DictHas(d, k)

RenderGpx(summary) ==
    IF ~HasKeys(summary, {"total_points", "start_time", "end_time", "sample_points"})
    THEN [ok |-> FALSE]
    ELSE [ok |-> TRUE,
          text |-> <<Lit("Type: GPX\nTotal Points: "), Val(DictAt(summary, "total_points")),
                     Lit("\nStart: "), Val(DictAt(summary, "start_time")),
                     Lit("\nEnd: "), Val(DictAt(summary, "end_time")),
                     Lit("\nSample Points: "), Val(DictAt(summary, "sample_points")),
                     Lit("\n")>>]

RenderFit(summary) ==
    IF ~HasKeys(summary, {"total_records", "fields", "sample_records"})
    THEN [ok |-> FALSE]
    ELSE [ok |-> TRUE,
          text |-> <<Lit("Type: FIT\nTotal Records: "), Val(DictAt(summary, "total_records")),
                     Lit("\nFields: "), Val(DictAt(summary, "fields")),
                     Lit("\nSample Records: "), Val(DictAt(summary, "sample_records")),
                     Lit("\n")>>]

RECURSIVE RenderStats(_, _)
(* for col in summary: if isinstance(summary[col], dict): ... *)
RenderStats(summary, i) ==
    IF i > Len(summary) THEN [ok |-> TRUE, text |-> <<>>]
    ELSE LET rest == RenderStats(summary, i + 1)
             v == summary[i].v
         IN  IF ~IsDict(v) THEN rest
             ELSE IF ~HasKeys(v.dict, {"mean", "min", "max"}) \/ ~rest.ok THEN [ok |-> FALSE]
             ELSE [ok |-> TRUE,
                   text |-> <<Lit(summary[i].k), Lit(": mean="), Val(DictAt(v.dict, "mean")),
                              Lit(", min="), Val(DictAt(v.dict, "min")),
                              Lit(", max="), Val(DictAt(v.dict, "max")), Lit("\n")>>
                            \o rest.text]

RenderCsv(summary) ==
    LET stats == RenderStats(summary, 1)
    IN  IF ~HasKeys(summary, {"total_records", "columns", "date_range", "sample"}) \/ ~stats.ok
        THEN [ok |-> FALSE]
        ELSE [ok |-> TRUE,
              text |-> <<Lit("Total Records: "), Val(DictAt(summary, "total_records")),
                         Lit("\nColumns: "), Val(DictAt(summary, "columns")),
                         Lit("\nDate Range: "), Val(DictAt(summary, "date_range")),
                         Lit("\n")>>
                       \o stats.text
                       \o <<Lit("Sample Rows:\n"), Val(DictAt(summary, "sample")), Lit("\n")>>]

(* the rule line: "\n" + "="*40 + "\n" *)
Rule == <<Lit("\n"), [rule |-> "=", times |-> RuleWidth], Lit("\n")>>

(* one pass of the loop over summaries *)
RenderSummary(summary) ==
    IF ~DictHas(summary, "file") THEN [ok |-> FALSE]
    ELSE LET type == DictGet(summary, "type")
             body == IF type = PyStr(<<"gpx">>) THEN RenderGpx(summary)
                     ELSE IF type = PyStr(<<"fit">>) THEN RenderFit(summary)
                     ELSE RenderCsv(summary)
         IN  IF ~body.ok THEN [ok |-> FALSE]
             ELSE [ok |-> TRUE,
                   text |-> <<Lit("File: "), Val(DictAt(summary, "file")), Lit("\n")>>
                            \o body.text \o Rule]

RECURSIVE RenderAll(_)
RenderAll(ss) ==
    IF ss = <<>> THEN [ok |-> TRUE, text |-> <<>>]
    ELSE LET first == RenderSummary(Head(ss))
             rest == RenderAll(Tail(ss))
         IN  IF first.ok /\ rest.ok THEN [ok |-> TRUE, text |-> first.text \o rest.text]
             ELSE [ok |-> FALSE]

(* the ending chosen by 'user_query is not None' *)
PromptEndingIfGiven(query) ==
    IF ~IsNone(query) THEN <<Lit("\nUser Query: "), Val(query), Lit("\n")>>
    ELSE <<Lit(DefaultPrompts)>>

(* if user_query: ... else: ... *)
PromptEnding(query) ==
    IF Truthy(query) THEN <<Lit("\nUser Query: "), Val(query), Lit("\n")>>
    ELSE <<Lit(DefaultPrompts)>>

build_llm_prompt(ss, query) ==
    LET body == RenderAll(ss)
    IN  IF ~body.ok THEN [ok |-> FALSE]
        ELSE [ok |-> TRUE,
              text |-> <<Lit("Today's date is "), Lit(Today),
                         Lit(". Always use this as the current date.\n\nAnalyze this Apple Health CSV data and provide insights.\n\n")>>
                       \o body.text \o PromptEnding(query)]

-----------------------------------------------------------------------------
(* The files a directory may hold: [name, content], the content being what
   the parsing library makes of the file, [fmt |-> "csv" | "gpx" | "fit", data],
   or [fmt |-> "bad"] for a file no parser accepts. *)

(* Date,HR / 2024-01-01,60 / 2024-01-02,70 / 2024-01-03,65 *)
CsvExample ==
    [n |-> 3,
     cols |-> <<[name |-> "Date", numeric |-> FALSE, vals |-> <<1, 2, 3>>],
                [name |-> "HR", numeric |-> TRUE, vals |-> <<60, 70, 65>>]>>]

GpxPoint(i, time, extensions) ==
    [time |-> time, latitude |-> [float |-> i], longitude |-> [float |-> i],
     elevation |-> NoneVal, extensions |-> extensions]

GpxOne == [tracks |-> << << <<GpxPoint(1, [ts |-> 1], <<>>)>> >> >>]

FitField(name, value) == [name |-> name, value |-> PyInt(value)]

FitEmpty == [messages |-> <<[name |-> "session", fields |-> <<FitField("sport", 1)>>]>>]

Catalogue ==
    { [name |-> <<"a", ".", "c", "s", "v">>, content |-> [fmt |-> "csv", data |-> CsvExample]],
      [name |-> <<"b", ".", "C", "S", "V">>, content |-> [fmt |-> "csv", data |-> CsvExample]],
      [name |-> <<".", "c", "s", "v">>, content |-> [fmt |-> "csv", data |-> CsvExample]],
      [name |-> <<"t", ".", "g", "p", "x">>, content |-> [fmt |-> "gpx", data |-> GpxOne]],
      [name |-> <<"m", ".", "g", "p", "x">>, content |-> [fmt |-> "bad"]],
      [name |-> <<"r", ".", "f", "i", "t">>, content |-> [fmt |-> "fit", data |-> FitEmpty]],
      [name |-> <<"n", ".", "t", "x", "t">>, content |-> [fmt |-> "bad"]] }

(* the listings of the directories of at most MaxFiles files *)
Listings ==
    UNION { { l \in [1..n -> Catalogue] : \A i, j \in 1..n : i # j => l[i] # l[j] }
            : n \in 0..MaxFiles }

(* --query: absent, empty, or a question *)
Queries == { NoneVal, PyStr(<<>>), PyStr(<<"H", "R", "?">>) }

(* the chunks a stream may yield *)
Chunks ==
    { <<[k |-> "message", v |-> PyDict(<<[k |-> "content", v |-> PyStr(<<"H", "i">>)]>>)]>>,
      <<[k |-> "message", v |-> PyDict(<<[k |-> "content", v |-> PyStr(<<>>)]>>)]>>,
      <<[k |-> "response", v |-> PyStr(<<"o", "k">>)]>>,
      <<[k |-> "message", v |-> NoneVal]>> }

-----------------------------------------------------------------------------
(* main() *)

ExtCsv == <<".", "c", "s", "v">>

ExtGpx == <<".", "g", "p", "x">>

ExtFit == <<".", "f", "i", "t">>

(* glob.glob(os.path.join(search_dir, '*' + suf)): the matching names, in
   listing order, as paths *)
glob(suf) ==
    LET ix == SelectIdx(Len(listing),
                        [i \in 1..Len(listing) |-> GlobMatch(listing[i].name, suf)], 1)
    IN  [j \in 1..Len(ix) |-> PathJoin(SearchDir, listing[ix[j]].name)]

(* the file a path names *)
FileAt(path) ==
    CHOOSE f \in {listing[i] : i \in 1..Len(listing)} : f.name = basename(path)

(* whether the parser of format fmt accepts the file: pd.read_csv,
   gpxpy.parse, fitparse.FitFile raise on a file they cannot read *)
ParseOk(path, fmt) == FileAt(path).content.fmt = fmt

(* the branch the extension selects *)
Dispatch(f) ==
    LET ext == lower(splitext_ext(f))
    IN  IF ext = ExtCsv THEN "csv"
        ELSE IF ext = ExtGpx THEN "gpx"
        ELSE IF ext = ExtFit THEN "fit"
        ELSE "unsupported"

Summarize(fmt, f) ==
    LET data == FileAt(f).content.data
    IN  IF fmt = "csv" THEN summarize_csv(f, data)
        ELSE IF fmt = "gpx" THEN summarize_gpx(f, data)
        ELSE summarize_fit(f, data)

Out(kind, text) == [kind |-> kind, text |-> text]

Idle ==
    /\ data_files = <<>>
    /\ idx = 1
    /\ summaries = <<>>
    /\ summarized = <<>>
    /\ prompt = NoneVal
    /\ console = <<>>
    /\ exit_code = NoneVal
    /\ client = "Idle"
    /\ client_trace = <<"Idle">>
    /\ received = <<>>
    /\ collected = <<>>
    /\ result = NoneVal
    /\ calls = <<>>

Init ==
    /\ listing \in Listings
    /\ user_query \in Queries
    /\ pc = "start"
    /\ arg = NoneVal
    /\ ret = NoneVal
    /\ Idle

(* the uncaught exception of a callee: the traceback is printed and the
   interpreter exits with status 1 *)
Crash(callee) ==
    /\ pc' = "crashed"
    /\ exit_code' = PyInt(1)
    /\ console' = Append(console, Out("Traceback", <<callee>>))

(* data_files, and the exit when there is none *)
Discover ==
    /\ pc = "start"
    /\ data_files' = glob(ExtCsv) \o glob(ExtGpx) \o glob(ExtFit)
    /\ IF data_files' = <<>>
       THEN /\ console' = Append(console, Out("No .csv, .gpx, or .fit files found in", SearchDir))
            /\ exit_code' = PyInt(1)
            /\ pc' = "exited"
       ELSE /\ pc' = "loop"
            /\ UNCHANGED <<console, exit_code>>
    /\ UNCHANGED <<listing, user_query, idx, summaries, summarized, prompt, client,
                   client_trace, received, collected, result, calls, arg, ret>>

(* the pass that catches a summarizer's failure and goes on to the next file *)
SummarizeNextIsolated ==
    /\ pc = "loop"
    /\ idx <= Len(data_files)
    /\ LET f == data_files[idx]
           fmt == Dispatch(f)
       IN  IF fmt = "unsupported"
           THEN /\ console' = Append(console, Out("Unsupported file type:", f))
                /\ UNCHANGED <<summaries, summarized, calls>>
           ELSE /\ calls' = Append(calls, "summarize_" \o fmt)
                /\ IF ParseOk(f, fmt)
                   THEN /\ summaries' = Append(summaries, Summarize(fmt, f))
                        /\ summarized' = Append(summarized, f)
                        /\ UNCHANGED console
                   ELSE /\ console' = Append(console, Out("Skipped:", f))
                        /\ UNCHANGED <<summaries, summarized>>
    /\ idx' = idx + 1
    /\ UNCHANGED <<listing, user_query, pc, data_files, prompt, exit_code, client,
                   client_trace, received, collected, result, arg, ret>>

(* one pass of the loop over data_files *)
SummarizeNext ==
    /\ pc = "loop"
    /\ idx <= Len(data_files)
    /\ LET f == data_files[idx]
           fmt == Dispatch(f)
       IN  IF fmt = "unsupported"
           THEN /\ console' = Append(console, Out("Unsupported file type:", f))
                /\ idx' = idx + 1
                /\ UNCHANGED <<pc, summaries, summarized, exit_code, calls>>
           ELSE /\ calls' = Append(calls, "summarize_" \o fmt)
                /\ IF ParseOk(f, fmt)
                   THEN /\ summaries' = Append(summaries, Summarize(fmt, f))
                        /\ summarized' = Append(summarized, f)
                        /\ idx' = idx + 1
                        /\ UNCHANGED <<pc, console, exit_code>>
                   ELSE /\ Crash("summarize_" \o fmt)
                        /\ UNCHANGED <<idx, summaries, summarized>>
    /\ UNCHANGED <<listing, user_query, data_files, prompt, client, client_trace,
                   received, collected, result, arg, ret>>

(* after the loop: the exit when nothing was summarized, else the prompt *)
BuildPrompt ==
    /\ pc = "loop"
    /\ idx > Len(data_files)
    /\ IF summaries = <<>>
       THEN /\ console' = Append(console, Out("No supported files to summarize.", <<>>))
            /\ exit_code' = PyInt(1)
            /\ pc' = "exited"
            /\ UNCHANGED <<prompt, calls>>
       ELSE /\ calls' = Append(calls, "build_llm_prompt")
            /\ LET p == build_llm_prompt(summaries, user_query)
               IN  IF p.ok
                   THEN /\ prompt' = PyStr(p.text)
                        /\ pc' = "query"
                        /\ UNCHANGED <<console, exit_code>>
                   ELSE /\ Crash("build_llm_prompt")
                        /\ UNCHANGED prompt
    /\ UNCHANGED <<listing, user_query, data_files, idx, summaries, summarized, client,
                   client_trace, received, collected, result, arg, ret>>

-----------------------------------------------------------------------------
(* query_ollama() *)

Enter(state) ==
    /\ client' = state
    /\ client_trace' = Append(client_trace, state)

(* the call: the banner, collected = [], and the chat request is issued *)
QueryStart ==
    /\ pc = "query"
    /\ client = "Idle"
    /\ console' = Append(console, Out("Contacting Ollama...", <<>>))
    /\ collected' = <<>>
    /\ calls' = calls \o <<"query_ollama", "ollama.chat">>
    /\ Enter("Requesting")
    /\ pc' = "chat"
    /\ UNCHANGED <<listing, user_query, data_files, idx, summaries, summarized, prompt,
                   exit_code, received, result, arg, ret>>

(* ollama.chat returns the stream *)
ChatReturns ==
    /\ pc = "chat"
    /\ client = "Requesting"
    /\ Enter("Streaming")
    /\ pc' = "stream"
    /\ UNCHANGED <<listing, user_query, data_files, idx, summaries, summarized, prompt,
                   console, exit_code, received, collected, result, calls, arg, ret>>

(* the handler with a raise in it: the failure reaches main's caller *)
CaughtPropagates ==
    /\ Crash("query_ollama")
    /\ Enter("Failed")
    /\ UNCHANGED collected

(* the handler with print("\nDone.") placed after the try statement *)
CaughtThenDone ==
    /\ console' = console \o <<Out("Error:", <<>>), Out("\nDone.", <<>>)>>
    /\ Enter("Failed")
    /\ pc' = "return"
    /\ UNCHANGED <<exit_code, collected>>

(* the handler dropping what was collected *)
CaughtDiscards ==
    /\ console' = Append(console, Out("Error:", <<>>))
    /\ Enter("Failed")
    /\ pc' = "return"
    /\ collected' = <<>>
    /\ UNCHANGED exit_code

(* except Exception as e: print(f"Error: {e}"); the function goes on to its
   return statement *)
Caught ==
    /\ console' = Append(console, Out("Error:", <<>>))
    /\ Enter("Failed")
    /\ pc' = "return"
    /\ UNCHANGED <<exit_code, collected>>

(* ollama.chat raises *)
ChatRaises ==
    /\ pc = "chat"
    /\ client = "Requesting"
    /\ Caught
    /\ UNCHANGED <<listing, user_query, data_files, idx, summaries, summarized, prompt,
                   received, result, calls, arg, ret>>

(* chunk.get('response') or (chunk.get('message') or {}).get('content') or '' *)
ChunkText(chunk) ==
    LET message == PyOr(DictGet(chunk, "message"), PyDict(<<>>))
    IN  PyOr(PyOr(DictGet(chunk, "response"), DictGet(message.dict, "content")),
             PyStr(<<>>))

(* one pass of the loop over the stream *)
NextChunk ==
    /\ pc = "stream"
    /\ client = "Streaming"
    /\ Len(received) < MaxChunks
    /\ \E chunk \in Chunks :
         LET text == ChunkText(chunk)
         IN  /\ received' = Append(received, chunk)
             /\ IF Truthy(text)
                THEN /\ collected' = Append(collected, text)
                     /\ console' = Append(console, Out("text", text.str))
                ELSE UNCHANGED <<collected, console>>
    /\ UNCHANGED <<listing, user_query, pc, data_files, idx, summaries, summarized, prompt,
                   exit_code, client, client_trace, result, calls, arg, ret>>

(* the stream is exhausted: print("\nDone.") *)
StreamEnds ==
    /\ pc = "stream"
    /\ client = "Streaming"
    /\ console' = Append(console, Out("\nDone.", <<>>))
    /\ Enter("Completed")
    /\ pc' = "return"
    /\ UNCHANGED <<listing, user_query, data_files, idx, summaries, summarized, prompt,
                   exit_code, received, collected, result, calls, arg, ret>>

(* the stream raises while the next chunk is awaited *)
StreamRaises ==
    /\ pc = "stream"
    /\ client = "Streaming"
    /\ Caught
    /\ UNCHANGED <<listing, user_query, data_files, idx, summaries, summarized, prompt,
                   received, result, calls, arg, ret>>

(* ''.join(collected) *)
Join(texts) == PyStr(Flatten([i \in 1..Len(texts) |-> texts[i].str]))

(* return ''.join(collected); main returns and the process ends with status 0 *)
QueryReturns ==
    /\ pc = "return"
    /\ result' = Join(collected)
    /\ exit_code' = PyInt(0)
    /\ pc' = "exited"
    /\ UNCHANGED <<listing, user_query, data_files, idx, summaries, summarized, prompt,
                   console, client, client_trace, received, collected, calls, arg, ret>>

Next ==
    \/ Discover
    \/ SummarizeNext
    \/ BuildPrompt
    \/ QueryStart
    \/ ChatReturns
    \/ ChatRaises
    \/ NextChunk
    \/ StreamEnds
    \/ StreamRaises
    \/ QueryReturns

Spec == Init /\ [][Next]_vars

-----------------------------------------------------------------------------
(* Properties of a run of main(). *)

Count(seq, x) == Cardinality({i \in 1..Len(seq) : seq[i] = x})

Printed(kind) == \E i \in 1..Len(console) : console[i].kind = kind

PrintedTimes(kind) == Cardinality({i \in 1..Len(console) : console[i].kind = kind})

Suffixes == {ExtCsv, ExtGpx, ExtFit}

(* the name matches '*' + suf as glob matches it *)
NameMatches(name, suf) ==
    /\ Len(name) >= Len(suf)
    /\ name[1] # "."
    /\ \A k \in 1..Len(suf) : name[Len(name) - Len(suf) + k] = suf[k]

NoMatchingFile ==
    \A i \in 1..Len(listing) : \A suf \in Suffixes : ~NameMatches(listing[i].name, suf)

(* C1: in a directory with no file matching *.csv, *.gpx or *.fit, main prints
   the 'no files found' message and exits with status 1, and nothing else
   happens in the run: no summarizer, build_llm_prompt or query_ollama is
   invoked. *)
C1_NoFilesExit ==
    (NoMatchingFile /\ pc # "start")
        => /\ pc = "exited"
           /\ exit_code = PyInt(1)
           /\ console = <<Out("No .csv, .gpx, or .fit files found in", SearchDir)>>
           /\ calls = <<>>
           /\ summaries = <<>>
           /\ prompt = NoneVal
           /\ client = "Idle"

(* a directory holding only files with unsupported extensions, after the run *)
C1_Witness ==
    /\ pc = "exited"
    /\ Len(listing) = 2
    /\ NoMatchingFile
    /\ exit_code = PyInt(1)

(* C2: once a file was discovered and every summarizer returned, the run ends
   with status 0 however the model call ended; a failure of the request or of
   the stream is caught in query_ollama and logged once, and the chat request
   is issued at most once. *)
C2_ModelFailureNotFatal ==
    /\ (pc = "exited" /\ data_files # <<>>) => exit_code = PyInt(0)
    /\ "query_ollama" \in {calls[i] : i \in 1..Len(calls)} => pc # "crashed"
    /\ Count(calls, "ollama.chat") <= 1
    /\ client = "Failed" => PrintedTimes("Error:") = 1 /\ pc \in {"return", "exited"}
    /\ client # "Failed" => PrintedTimes("Error:") = 0

(* a run whose stream failed after a chunk and that ended with status 0 *)
C2_Witness ==
    /\ pc = "exited"
    /\ client = "Failed"
    /\ received # <<>>
    /\ exit_code = PyInt(0)

LoopFinished ==
    \/ pc = "loop" /\ idx > Len(data_files)
    \/ pc \in {"query", "chat", "stream", "return"}
    \/ pc \in {"exited", "crashed"} /\ data_files # <<>> /\ idx > Len(data_files)

(* C3: a parsing failure in one discovered file aborts the batch: the failure
   is not caught (the loop never gets past a file that does not parse), the
   files after it are never summarized, no prompt is built and the model
   service is never contacted; query_ollama is invoked only after every
   discovered file has been summarized. *)
C3_ParseFailureAborts ==
    /\ \A i \in 1..Len(data_files) :
          (i < idx /\ Dispatch(data_files[i]) # "unsupported")
              => ParseOk(data_files[i], Dispatch(data_files[i]))
    /\ pc = "crashed"
          => /\ idx <= Len(data_files)
             /\ ~ParseOk(data_files[idx], Dispatch(data_files[idx]))
             /\ summarized = SubSeq(data_files, 1, idx - 1)
             /\ Len(calls) = idx
             /\ \A i \in 1..Len(calls) :
                   calls[i] \notin {"build_llm_prompt", "query_ollama", "ollama.chat"}
             /\ prompt = NoneVal
             /\ client = "Idle"
             /\ result = NoneVal
             /\ exit_code = PyInt(1)
    /\ (\E i \in 1..Len(calls) : calls[i] \in {"build_llm_prompt", "query_ollama"})
          => summarized = data_files

(* the batch aborted at its first file, another discovered file left unread *)
C3_Witness ==
    /\ pc = "crashed"
    /\ idx = 1
    /\ Len(data_files) = 2
    /\ summarized = <<>>

ClientMoves ==
    { <<"Idle", "Requesting">>, <<"Requesting", "Streaming">>, <<"Requesting", "Failed">>,
      <<"Streaming", "Completed">>, <<"Streaming", "Failed">> }

ClientStep ==
    /\ client' # client => <<client, client'>> \in ClientMoves
    /\ client \in {"Completed", "Failed"}
          => /\ client' = client
             /\ received' = received
             /\ collected' = collected
             /\ console' = console
    /\ client' = "Completed"
          => /\ Count(console', Out("\nDone.", <<>>)) = 1
             /\ ~\E i \in 1..Len(console') : console'[i].kind = "Error:"
    /\ client' = "Failed"
          => /\ Count(console', Out("Error:", <<>>)) = 1
             /\ ~\E i \in 1..Len(console') : console'[i].kind = "\nDone."
    /\ client' \in {"Idle", "Requesting", "Streaming"}
          => ~\E i \in 1..Len(console') : console'[i].kind \in {"Error:", "\nDone."}
    /\ (client \in {"Completed", "Failed"} /\ pc = "return")
          => /\ pc' = "exited"
             /\ "str" \in DOMAIN result'
             /\ exit_code' = PyInt(0)
    /\ (received' # received \/ collected' # collected) => client = "Streaming"

(* C4: the model client moves Idle -> Requesting -> Streaming -> Completed or
   Failed and in no other way, Failed also straight from Requesting; Completed
   and Failed are terminal, no chunk being consumed or printed after them;
   from both query_ollama returns its string to its caller; 'Done.' is
   printed in Completed only and 'Error:' in Failed only. *)
C4_ClientStateMachine == [][ClientStep]_vars

(* the client failed while streaming, after a text was collected, and
   query_ollama has returned *)
C4_Witness ==
    /\ client_trace = <<"Idle", "Requesting", "Streaming", "Failed">>
    /\ collected # <<>>
    /\ pc = "exited"
    /\ result # NoneVal

(* the other ends of the client *)
C4_FailedFromRequesting == client_trace = <<"Idle", "Requesting", "Failed">>

C4_Completed == client_trace = <<"Idle", "Requesting", "Streaming", "Completed">>

RECURSIVE NonEmptyTexts(_)
(* the non-empty texts of the chunks, in arrival order *)
NonEmptyTexts(chunks) ==
    IF chunks = <<>> THEN <<>>
    ELSE LET text == ChunkText(Head(chunks))
         IN  (IF text.str # <<>> THEN <<text.str>> ELSE <<>>) \o NonEmptyTexts(Tail(chunks))

RECURSIVE PrintedTexts(_)
PrintedTexts(out) ==
    IF out = <<>> THEN <<>>
    ELSE (IF Head(out).kind = "text" THEN <<Head(out).text>> ELSE <<>>)
         \o PrintedTexts(Tail(out))

(* C9: at every moment the texts printed and the texts collected are the
   non-empty texts of the chunks received so far, once each and in arrival
   order; the string query_ollama returns is their concatenation, also after
   a failure, and is empty when the failure came before the first text. *)
C9_ReturnedString ==
    LET texts == NonEmptyTexts(received)
    IN  /\ PrintedTexts(console) = texts
        /\ [i \in 1..Len(collected) |-> collected[i].str] = texts
        /\ (pc = "exited" /\ client # "Idle") => result = PyStr(Flatten(texts))
        /\ (pc = "exited" /\ client = "Failed" /\ texts = <<>>) => result = PyStr(<<>>)

(* a failed stream whose two texts were returned *)
C9_Witness ==
    /\ pc = "exited"
    /\ client = "Failed"
    /\ Len(NonEmptyTexts(received)) = 2
    /\ Len(result.str) = 4

(* the discovery order: the matches of one suffix, in listing order *)
Matches(suf) ==
    LET ix == SelectIdx(Len(listing),
                        [i \in 1..Len(listing) |-> NameMatches(listing[i].name, suf)], 1)
    IN  [j \in 1..Len(ix) |-> SearchDir \o <<"/">> \o listing[ix[j]].name]

(* C10: when the dispatch loop finishes there is one summary per discovered
   file, in discovery order (the *.csv matches, then *.gpx, then *.fit);
   every discovered path is dispatched to a summarizer, so that neither
   'Unsupported file type' nor 'No supported files to summarize' is ever
   printed. *)
C10_OneSummaryPerFile ==
    /\ pc # "start" => data_files = Matches(ExtCsv) \o Matches(ExtGpx) \o Matches(ExtFit)
    /\ \A i \in 1..Len(data_files) : Dispatch(data_files[i]) # "unsupported"
    /\ LoopFinished => summarized = data_files /\ Len(summaries) = Len(data_files)
    /\ ~Printed("Unsupported file type:")
    /\ ~Printed("No supported files to summarize.")
    /\ (data_files # <<>> /\ exit_code = PyInt(1)) => pc = "crashed"

(* two files of two types, listed in the other order than they are discovered
   in, both summarized *)
C10_Witness ==
    /\ pc = "query"
    /\ Len(data_files) = 2
    /\ data_files[1] # SearchDir \o <<"/">> \o listing[1].name
    /\ Len(summaries) = 2

-----------------------------------------------------------------------------
(* The tabular summarizer applied alone, to every small table. *)

ColNames == {"HR", "Date", "total_records", "sample"}

(* the table of n rows with the columns named names: a column is numeric as
   numeric says, and the cell of row r and column c is drawn from base *)
CsvOf(n, names, numeric, base) ==
    [n |-> n,
     cols |-> [c \in 1..Len(names) |->
                 [name |-> names[c], numeric |-> numeric[c],
                  vals |-> [r \in 1..n |-> ((base[r] + c) % MaxVal) + 1]]]]

CsvPath == PathJoin(SearchDir, <<"a", ".", "c", "s", "v">>)

InitCsv ==
    /\ pc = "csv"
    /\ \E n \in 0..MaxRows, k \in 1..MaxCols :
         \E names \in {c \in [1..k -> ColNames] : \A i, j \in 1..k : i # j => c[i] # c[j]},
            \* a table without rows has no numeric column: pandas gives its
            \* columns the dtype object
            numeric \in [1..k -> IF n = 0 THEN {FALSE} ELSE BOOLEAN],
            base \in [1..n -> 1..MaxVal] :
            arg = CsvOf(n, names, numeric, base)
    /\ ret = NoneVal
    /\ listing = <<>>
    /\ user_query = NoneVal
    /\ Idle

ApplyCsv ==
    /\ pc = "csv"
    /\ ret' = PyDict(summarize_csv(CsvPath, arg))
    /\ pc' = "csv_done"
    /\ UNCHANGED <<arg, mainVars>>

NextCsv == ApplyCsv

SpecCsv == InitCsv /\ [][NextCsv]_vars

IsMinOf(m, vals) == (\E i \in 1..Len(vals) : vals[i] = m) /\ \A i \in 1..Len(vals) : m <= vals[i]

IsMaxOf(m, vals) == (\E i \in 1..Len(vals) : vals[i] = m) /\ \A i \in 1..Len(vals) : m >= vals[i]

Total(vals) == IF vals = <<>> THEN 0 ELSE SeqSum(vals)

(* the entry is a mapping with the mean, min and max of the column *)
IsStatsOf(entry, col) ==
    /\ IsDict(entry)
    /\ DictKeys(entry.dict) = <<"mean", "min", "max">>
    /\ LET mean == DictAt(entry.dict, "mean").float
       IN  mean.num * Len(col.vals) = Total(col.vals) * mean.den
    /\ IsMinOf(DictAt(entry.dict, "min").int, col.vals)
    /\ IsMaxOf(DictAt(entry.dict, "max").int, col.vals)

(* the date range is '<min Date> to <max Date>' *)
IsDateRangeOf(entry, col) ==
    /\ IsStr(entry)
    /\ Len(entry.str) = 3
    /\ entry.str[2] = " to "
    /\ col.vals # <<>>
          => \E lo, hi \in 1..MaxVal :
                /\ IsMinOf(lo, col.vals)
                /\ IsMaxOf(hi, col.vals)
                /\ entry.str[1] = CellStr(col, lo)
                /\ entry.str[3] = CellStr(col, hi)

CsvSummaryOf(summary, df) ==
    /\ DictGet(summary, "total_records") = PyInt(df.n)
    /\ DictGet(summary, "columns")
         = PyList([i \in 1..Len(df.cols) |-> PyStr(<<df.cols[i].name>>)])
    /\ IF \E i \in 1..Len(df.cols) : df.cols[i].name = "Date"
       THEN \A i \in 1..Len(df.cols) :
               df.cols[i].name = "Date" => IsDateRangeOf(DictGet(summary, "date_range"), df.cols[i])
       ELSE DictGet(summary, "date_range") = PyStr(<<"N/A">>)
    /\ \A i \in 1..Len(df.cols) :
          df.cols[i].numeric => IsStatsOf(DictGet(summary, df.cols[i].name), df.cols[i])

(* C5: for every table of N rows, whatever its column names, the summary has
   total_records = N, columns = the column names in order, date_range =
   '<min Date> to <max Date>' with a Date column and 'N/A' without, and for
   every numeric column an entry under its name holding its mean, min and
   max. *)
C5_CsvSummary == pc = "csv_done" => CsvSummaryOf(ret.dict, arg)

SummaryKeys == {"file", "total_records", "columns", "date_range", "sample"}

(* the same for the tables none of whose numeric columns bears the name of a
   key of the summary *)
C5_CsvSummaryDistinctNames ==
    (pc = "csv_done"
        /\ \A i \in 1..Len(arg.cols) : arg.cols[i].numeric => arg.cols[i].name \notin SummaryKeys)
        => CsvSummaryOf(ret.dict, arg)

C5_DistinctNamesWitness ==
    /\ pc = "csv_done"
    /\ arg.n = 2
    /\ Len(arg.cols) = 2
    /\ \E i \in 1..2 : arg.cols[i].numeric /\ arg.cols[i].name = "HR"
    /\ \E i \in 1..2 : ~arg.cols[i].numeric /\ arg.cols[i].name = "total_records"

-----------------------------------------------------------------------------
(* The track summarizer applied alone.  A track file is drawn by its shape,
   the number of segments of each track and the number of points of each of
   its segments, and by what its points carry. *)

TrackShapes ==
    {<<>>} \cup { [i \in 1..k |-> len] : k \in 1..MaxSegs, len \in 0..MaxSegLen }

GpxShapes == UNION { [1..t -> TrackShapes] : t \in 0..MaxTracks }

PointKinds == {"timed", "untimed", "hr", "cadence"}

HrChildren ==
    << <<[tag |-> <<"c", "a", "d">>, text |-> PyStr(<<"8", "0">>)],
         [tag |-> <<"n", "s", ":", "H", "R">>, text |-> PyStr(<<"1", "4", "0">>)]>> >>

CadenceChildren == << <<[tag |-> <<"c", "a", "d">>, text |-> PyStr(<<"8", "0">>)]>> >>

(* point p of segment s of track t *)
ShapedPoint(kind, t, s, p) ==
    GpxPoint(100 * t + 10 * s + p,
             IF kind = "untimed" THEN NoneVal ELSE [ts |-> 100 * t + 10 * s + p],
             IF kind = "hr" THEN HrChildren
             ELSE IF kind = "cadence" THEN CadenceChildren
             ELSE <<>>)

GpxOf(shape, kind) ==
    [tracks |-> [t \in 1..Len(shape) |->
                   [sg \in 1..Len(shape[t]) |->
                      [p \in 1..shape[t][sg] |-> ShapedPoint(kind, t, sg, p)]]]]

GpxPath == PathJoin(SearchDir, <<"t", ".", "g", "p", "x">>)

InitGpx ==
    /\ pc = "gpx"
    /\ \E shape \in GpxShapes, kind \in PointKinds : arg = GpxOf(shape, kind)
    /\ ret = NoneVal
    /\ listing = <<>>
    /\ user_query = NoneVal
    /\ Idle

ApplyGpx ==
    /\ pc = "gpx"
    /\ ret' = PyDict(summarize_gpx(GpxPath, arg))
    /\ pc' = "gpx_done"
    /\ UNCHANGED <<arg, mainVars>>

NextGpx == ApplyGpx

SpecGpx == InitGpx /\ [][NextGpx]_vars

(* the positions <<track, segment, point>> of the points of a track file *)
Positions(gpx) ==
    UNION { UNION { { <<t, sg, p>> : p \in 1..Len(gpx.tracks[t][sg]) }
                    : sg \in 1..Len(gpx.tracks[t]) }
            : t \in 1..Len(gpx.tracks) }

(* document order *)
Before(a, b) ==
    \/ a[1] < b[1]
    \/ a[1] = b[1] /\ a[2] < b[2]
    \/ a[1] = b[1] /\ a[2] = b[2] /\ a[3] < b[3]

(* the position of the n-th point in document order *)
NthPosition(gpx, n) ==
    CHOOSE pos \in Positions(gpx) :
        Cardinality({q \in Positions(gpx) : Before(q, pos)}) = n - 1

PointAt(gpx, pos) == gpx.tracks[pos[1]][pos[2]][pos[3]]

(* the string form of a time, as the summary must hold it *)
IsTimeStrOf(entry, time) ==
    /\ IsStr(entry)
    /\ IF "ts" \in DOMAIN time
       THEN entry.str = <<"2024-01-01 00:00:", ToString(time.ts), "+00:00">>
       ELSE entry.str = <<"None">>

(* the sample point is the point: same time, coordinates and elevation *)
IsSampleOf(entry, point) ==
    /\ IsDict(entry)
    /\ DictGet(entry.dict, "time") = point.time
    /\ DictGet(entry.dict, "latitude") = point.latitude
    /\ DictGet(entry.dict, "longitude") = point.longitude
    /\ DictGet(entry.dict, "elevation") = point.elevation

Least(a, b) == IF a < b THEN a ELSE b

(* C6: summarize_gpx returns a summary whose total_points is the number of
   points over all tracks and segments, whose start_time and end_time are
   'N/A' exactly when there is no point and otherwise the string forms of the
   times of the first and of the last point in document order, and whose
   sample_points are the first 10 points, or all when fewer, in that order. *)
C6_GpxSummary ==
    pc = "gpx_done"
        => LET summary == ret.dict
               n == Cardinality(Positions(arg))
               sample == DictGet(summary, "sample_points")
           IN  /\ DictKeys(summary)
                    = <<"file", "type", "total_points", "start_time", "end_time", "sample_points">>
               /\ DictGet(summary, "total_points") = PyInt(n)
               /\ (DictGet(summary, "start_time") = PyStr(<<"N/A">>)) <=> (n = 0)
               /\ (DictGet(summary, "end_time") = PyStr(<<"N/A">>)) <=> (n = 0)
               /\ n > 0 => /\ IsTimeStrOf(DictGet(summary, "start_time"),
                                          PointAt(arg, NthPosition(arg, 1)).time)
                           /\ IsTimeStrOf(DictGet(summary, "end_time"),
                                          PointAt(arg, NthPosition(arg, n)).time)
               /\ Len(sample.list) = Least(n, SampleSize)
               /\ \A j \in 1..Len(sample.list) :
                     IsSampleOf(sample.list[j], PointAt(arg, NthPosition(arg, j)))

(* two tracks of more than 10 points together, none of them timed *)
C6_Witness ==
    /\ pc = "gpx_done"
    /\ Len(arg.tracks) = 2
    /\ DictGet(ret.dict, "total_points").int > SampleSize
    /\ Len(DictGet(ret.dict, "sample_points").list) = SampleSize
    /\ DictGet(ret.dict, "start_time") = PyStr(<<"None">>)

(* a track file without points *)
C6_WitnessEmpty ==
    /\ pc = "gpx_done"
    /\ Len(arg.tracks) = 2
    /\ DictGet(ret.dict, "total_points") = PyInt(0)
    /\ DictGet(ret.dict, "end_time") = PyStr(<<"N/A">>)

-----------------------------------------------------------------------------
(* The fitness summarizer applied alone, and its summary rendered.  A file is
   drawn by its number of messages, the place of its one message of another
   type (0: none), and the fields of its first record and of the others. *)

FieldLayouts ==
    { <<"timestamp", "heart_rate">>,
      <<"timestamp", "heart_rate", "speed">>,
      <<"timestamp", "unknown", "unknown">> }

FitOf(n, other, first, rest) ==
    LET firstRecord == IF other = 1 THEN 2 ELSE 1
    IN  [messages |->
           [i \in 1..n |->
              [name |-> IF i = other THEN "session" ELSE "record",
               fields |-> LET names == IF i = firstRecord THEN first ELSE rest
                          IN  [j \in 1..Len(names) |-> FitField(names[j], 10 * i + j)]]]]

FitPath == PathJoin(SearchDir, <<"r", ".", "f", "i", "t">>)

InitFit ==
    /\ pc = "fit"
    /\ \E n \in 0..MaxMsgs :
         \E other \in 0..n, first \in FieldLayouts, rest \in FieldLayouts :
            arg = FitOf(n, other, first, rest)
    /\ ret = NoneVal
    /\ listing = <<>>
    /\ user_query \in Queries
    /\ Idle

ApplyFit ==
    /\ pc = "fit"
    /\ ret' = PyDict(summarize_fit(FitPath, arg))
    /\ pc' = "fit_done"
    /\ UNCHANGED <<arg, mainVars>>

(* the summary in a prompt: the text, or the KeyError of the rendering *)
RenderFitPrompt ==
    /\ pc = "fit_done"
    /\ LET p == build_llm_prompt(<<ret.dict>>, user_query)
       IN  prompt' = IF p.ok THEN PyStr(p.text) ELSE [error |-> "KeyError"]
    /\ pc' = "fit_rendered"
    /\ UNCHANGED <<listing, user_query, data_files, idx, summaries, summarized, console,
                   exit_code, client, client_trace, received, collected, result, calls,
                   arg, ret>>

NextFit ==
    \/ ApplyFit
    \/ RenderFitPrompt

SpecFit == InitFit /\ [][NextFit]_vars

(* the places of the 'record' messages of a file *)
RecordPlaces(fitfile) ==
    {i \in 1..Len(fitfile.messages) : fitfile.messages[i].name = "record"}

(* the place of the n-th 'record' message *)
NthRecord(fitfile, n) ==
    CHOOSE i \in RecordPlaces(fitfile) :
        Cardinality({j \in RecordPlaces(fitfile) : j < i}) = n - 1

(* names lists, once each and in the order of their first field, the names
   of the fields of the message *)
IsFieldNamesOf(names, message) ==
    /\ \A j \in 1..Len(message.fields) :
          \E m \in 1..Len(names) : names[m] = PyStr(<<message.fields[j].name>>)
    /\ \A m \in 1..Len(names) :
          \E j \in 1..Len(message.fields) : names[m] = PyStr(<<message.fields[j].name>>)
    /\ \A m1, m2 \in 1..Len(names) : m1 # m2 => names[m1] # names[m2]
    /\ \A m1, m2 \in 1..Len(names) :
          m1 < m2 =>
             \E j1 \in 1..Len(message.fields) :
                /\ names[m1] = PyStr(<<message.fields[j1].name>>)
                /\ \A j2 \in 1..j1 : names[m2] # PyStr(<<message.fields[j2].name>>)

(* the sample record holds the last value of each field of the message *)
IsRecordOf(entry, message) ==
    /\ IsDict(entry)
    /\ \A j \in 1..Len(message.fields) :
          (\A j2 \in (j + 1)..Len(message.fields) :
               message.fields[j2].name # message.fields[j].name)
              => DictGet(entry.dict, message.fields[j].name) = message.fields[j].value
    /\ \A m \in 1..Len(entry.dict) :
          \E j \in 1..Len(message.fields) : message.fields[j].name = entry.dict[m].k

(* C7: summarize_fit counts the 'record' messages only: total_records is their
   number, fields is the empty list when there is none and otherwise the field
   names of the first record, and sample_records is the first 10 records, or
   all when fewer; a summary of zero records is rendered by build_llm_prompt
   without a failure. *)
C7_FitSummary ==
    /\ pc \in {"fit_done", "fit_rendered"}
          => LET summary == ret.dict
                 n == Cardinality(RecordPlaces(arg))
                 fields == DictGet(summary, "fields")
                 sample == DictGet(summary, "sample_records")
             IN  /\ DictGet(summary, "total_records") = PyInt(n)
                 /\ n = 0 => fields = PyList(<<>>)
                 /\ n > 0 => IsFieldNamesOf(fields.list, arg.messages[NthRecord(arg, 1)])
                 /\ Len(sample.list) = Least(n, SampleSize)
                 /\ \A j \in 1..Len(sample.list) :
                       IsRecordOf(sample.list[j], arg.messages[NthRecord(arg, j)])
    /\ pc = "fit_rendered"
          => /\ IsStr(prompt)
             /\ \E i \in 1..(Len(prompt.str) - 1) :
                   /\ prompt.str[i] = Lit("\nFields: ")
                   /\ prompt.str[i + 1] = Val(DictGet(ret.dict, "fields"))

(* a file whose only message is of another type, summarized and rendered *)
C7_Witness ==
    /\ pc = "fit_rendered"
    /\ Len(arg.messages) = 1
    /\ DictGet(ret.dict, "total_records") = PyInt(0)
    /\ DictGet(ret.dict, "fields") = PyList(<<>>)
    /\ IsStr(prompt)

(* more than 10 records, the later ones with a field the first has not *)
C7_WitnessMany ==
    /\ pc = "fit_done"
    /\ DictGet(ret.dict, "total_records").int > SampleSize
    /\ Len(DictGet(ret.dict, "sample_records").list) = SampleSize
    /\ Len(DictGet(ret.dict, "fields").list) = 2
    /\ Len(arg.messages[Len(arg.messages)].fields) = 3

-----------------------------------------------------------------------------
(* The prompt builder applied alone, to every short list of summaries. *)

FitOne == FitOf(1, 0, <<"timestamp", "heart_rate">>, <<"timestamp", "heart_rate">>)

SampleSummaries ==
    { summarize_csv(CsvPath, CsvExample),
      summarize_gpx(GpxPath, GpxOne),
      summarize_gpx(GpxPath, [tracks |-> <<>>]),
      summarize_fit(FitPath, FitEmpty),
      summarize_fit(FitPath, FitOne) }

InitPrompt ==
    /\ pc = "prompt"
    /\ arg \in UNION { [1..n -> SampleSummaries] : n \in 0..MaxSummaries }
    /\ ret = NoneVal
    /\ listing = <<>>
    /\ user_query \in Queries
    /\ Idle

ApplyPrompt ==
    /\ pc = "prompt"
    /\ LET p == build_llm_prompt(arg, user_query)
       IN  prompt' = IF p.ok THEN PyStr(p.text) ELSE [error |-> "KeyError"]
    /\ pc' = "prompt_done"
    /\ UNCHANGED <<listing, user_query, data_files, idx, summaries, summarized, console,
                   exit_code, client, client_trace, received, collected, result, calls,
                   arg, ret>>

NextPrompt == ApplyPrompt

SpecPrompt == InitPrompt /\ [][NextPrompt]_vars

EndsWith(text, ending) ==
    /\ Len(text) >= Len(ending)
    /\ \A i \in 1..Len(ending) : text[Len(text) - Len(ending) + i] = ending[i]

Holds(text, piece) == \E i \in 1..Len(text) : text[i] = piece

QuestionEnding(query) == <<Lit("\nUser Query: "), Val(query), Lit("\n")>>

EndsWithQuestion(text, query) ==
    /\ EndsWith(text, QuestionEnding(query))
    /\ ~Holds(text, Lit(DefaultPrompts))

EndsWithDefaults(text) ==
    /\ EndsWith(text, <<Lit(DefaultPrompts)>>)
    /\ ~Holds(text, Lit("\nUser Query: "))

(* C8 as stated: the prompt ends with the question verbatim whenever a question
   was supplied, the empty string included, and with the four default prompts
   only when none was supplied; never with both. *)
C8_EndingAsStated ==
    pc = "prompt_done"
        => /\ IsStr(prompt)
           /\ IsStr(user_query) => EndsWithQuestion(prompt.str, user_query)
           /\ IsNone(user_query) => EndsWithDefaults(prompt.str)

(* C8, amended: the prompt ends with the question verbatim whenever a non-empty
   question was supplied, and with the four default prompts when no question
   was supplied or the question is the empty string; never with both. *)
C8_Ending ==
    pc = "prompt_done"
        => /\ IsStr(prompt)
           /\ (IsStr(user_query) /\ user_query.str # <<>>)
                 => EndsWithQuestion(prompt.str, user_query)
           /\ (IsNone(user_query) \/ user_query = PyStr(<<>>))
                 => EndsWithDefaults(prompt.str)

(* the empty question, after two summaries: the default prompts end the prompt *)
C8_Witness ==
    /\ pc = "prompt_done"
    /\ Len(arg) = 2
    /\ user_query = PyStr(<<>>)
    /\ IsStr(prompt)
    /\ EndsWithDefaults(prompt.str)

(* a question, after two summaries: it ends the prompt *)
C8_WitnessQuestion ==
    /\ pc = "prompt_done"
    /\ Len(arg) = 2
    /\ user_query = PyStr(<<"H", "R", "?">>)
    /\ IsStr(prompt)
    /\ EndsWithQuestion(prompt.str, user_query)

====
